---- MODULE Spec2Model ----
(***************************************************************************)
(* State-machine model of the Grapevine server (crates/grapevine_server):  *)
(* the identity registry (routes/user.rs), the nonce guard exercised by    *)
(* the /nonce-guard-test route (main.rs), the relationship ledger and the  *)
(* degree-proof store (routes/proof.rs).                                   *)
(*                                                                         *)
(* guards.rs, mongo.rs and the grapevine_common / grapevine_circuits       *)
(* crates are not part of the sources at hand; the operators that stand    *)
(* for them follow spec.md and are marked as such where they are defined.  *)
(***************************************************************************)
EXTENDS Integers, Sequences, FiniteSets, TLC

----------------------------------------------------------------------------
(* Bounds of the model *)

\* largest stored nonce explored
MaxNonce == 2

\* largest number of stored degree proofs explored
MaxProofs == 2

\* largest number of stored degree proofs explored where the frontier of a
\* user is followed
MaxChain == 3

\* largest stored nonce explored where the frontier of a user is followed
MaxChainNonce == 3

\* largest number of stored relationship edges explored
MaxRels == 2

\* number of concurrently running /nonce-guard-test requests
NumTasks == 2

----------------------------------------------------------------------------
(* Program constants *)

\* grapevine_common::MAX_USERNAME_CHARS, "exceeds limit of 30 characters"
MAX_USERNAME_CHARS == 30

\* width in bytes of the field element a username is encoded to
FrBytes == 32

----------------------------------------------------------------------------
(* Input domains *)

\* usernames are byte strings (String::len counts bytes)
alice == <<97>>
bob == <<98>>
TooLongName == [i \in 1..(MAX_USERNAME_CHARS + 1) |-> 97]
NonAsciiName == <<195, 169>>

GoodNames == {alice, bob}
Usernames == GoodNames \cup {TooLongName, NonAsciiName}

\* compressed public keys; BadKey does not decompress to a curve point
Keys == {"kA", "kB"}
BadKey == "kBad"

\* String::len
StrLen(s) == Len(s)

\* str::is_ascii
is_ascii(s) == \A i \in 1..Len(s) : s[i] < 128

\* convert_username_to_fr: the username's bytes, zero padded to the width
\* of a field element (little endian); BigInt::from_bytes_le reads the same
\* bytes, so the message is kept as its little-endian digits.
convert_username_to_fr(s) ==
    [i \in 1..FrBytes |-> IF i <= Len(s) THEN s[i] ELSE 0]

\* a compressed signature is what a key signed, or bytes that do not decode
BadSig == [signer |-> "none", msg |-> <<>>]
Signatures ==
    {[signer |-> k, msg |-> convert_username_to_fr(u)] : k \in Keys, u \in GoodNames}
        \cup {BadSig}

\* babyjubjub_rs::verify(pubkey, signature, message)
verify(pubkey, sig, message) == sig.signer = pubkey /\ sig.msg = message

----------------------------------------------------------------------------
(* State *)

VARIABLES
    users,          \* the users collection: Seq of User documents, id = index
    relationships,  \* the relationships collection, id = index
    proofs,         \* the degree proofs collection, id = index
    last,           \* the request served last and its response
    tasks           \* concurrently running /nonce-guard-test requests

vars == <<users, relationships, proofs, last, tasks>>

db == <<users, relationships, proofs>>

\* the Authorization header of a request: absent, without delimiter, or
\* "<username>-<nonce>"
NoCred == [kind |-> "none", username |-> <<>>, nonce |-> -1]
MalformedCred == [kind |-> "malformed", username |-> <<>>, nonce |-> -1]
Creds ==
    {NoCred, MalformedCred} \cup
    {[kind |-> "ok", username |-> u, nonce |-> n] : u \in GoodNames, n \in 0..MaxNonce}

\* id of the user named u in the collection us, 0 when there is none
FindUser(us, u) ==
    IF \E i \in 1..Len(us) : us[i].username = u
    THEN CHOOSE i \in 1..Len(us) : us[i].username = u
    ELSE 0

\* GrapevineDB::get_user
get_user(us, u) == FindUser(us, u)

\* GrapevineDB::check_creation_params: [username exists, pubkey exists]
check_creation_params(us, username, pubkey) ==
    << \E i \in 1..Len(us) : us[i].username = username,
       \E i \in 1..Len(us) : us[i].pubkey = pubkey >>

\* a response: the route served, its outcome, for a nonce mismatch the two
\* nonces the message reports, and for get_nonce the nonce returned
Resp(op, outcome, expected, received, value) ==
    [op |-> op, outcome |-> outcome, expected |-> expected, received |-> received,
     value |-> value]

\* a /nonce-guard-test request in flight: its credential, whether the
\* credential named the stored nonce when it was sent, and its response
IdleTask == [pc |-> "idle", cred |-> NoCred, outcome |-> "none", fresh |-> FALSE]

Init ==
    /\ users = <<>>
    /\ relationships = <<>>
    /\ proofs = <<>>
    /\ last = Resp("init", "none", -1, -1, -1)
    /\ tasks = [t \in 1..NumTasks |-> IdleTask]

\* the model explores stored nonces up to a bound, MaxNonce by default
NonceBoundUpTo(us, bound) == \A i \in 1..Len(us) : us[i].nonce <= bound

NonceBound(us) == NonceBoundUpTo(us, MaxNonce)

----------------------------------------------------------------------------
(* Request guards (guards.rs) *)

\* GrapevineDB::increment_nonce
increment_nonce(us, i) == [us EXCEPT ![i].nonce = @ + 1]

GuardFail(us, outcome, expected, received) ==
    [outcome |-> outcome, expected |-> expected, received |-> received,
     users |-> us, user |-> 0]

\* NonceGuard: validates the nonce of the credential against the stored
\* counter and advances the counter exactly once on success, as one atomic
\* compare-and-increment.
NonceGuard(us, cred) ==
    IF cred.kind = "none" THEN GuardFail(us, "MissingHeader", -1, -1)
    ELSE IF cred.kind = "malformed" THEN GuardFail(us, "MalformedHeader", -1, -1)
    ELSE LET i == get_user(us, cred.username) IN
         IF i = 0 THEN GuardFail(us, "UserNotFound", -1, -1)
         ELSE IF us[i].nonce # cred.nonce
              THEN GuardFail(us, "NonceMismatch", us[i].nonce, cred.nonce)
         ELSE [outcome |-> "Ok", expected |-> -1, received |-> -1,
               users |-> increment_nonce(us, i), user |-> i]

\* AuthenticatedUser: the nonce guard, and a signature by the stored public
\* key over the username (the check of registration)
AuthenticatedUser(us, cred, sig) ==
    IF cred.kind = "none" THEN GuardFail(us, "MissingHeader", -1, -1)
    ELSE IF cred.kind = "malformed" THEN GuardFail(us, "MalformedHeader", -1, -1)
    ELSE LET i == get_user(us, cred.username) IN
         IF i = 0 THEN GuardFail(us, "UserNotFound", -1, -1)
         ELSE IF sig = BadSig
                 \/ ~verify(us[i].pubkey, sig, convert_username_to_fr(cred.username))
              THEN GuardFail(us, "Signature", -1, -1)
         ELSE NonceGuard(us, cred)

----------------------------------------------------------------------------
(* GET /nonce-guard-test *)

\* the response of the handler of /nonce-guard-test
Verified == "Succesfully verified nonce"

\* outcomes with which a request guard turns a request away
GuardFailures ==
    {"MissingHeader", "MalformedHeader", "UserNotFound", "NonceMismatch", "Signature"}

\* action declared without its guard parameter
action_unguarded(us, cred) ==
    [outcome |-> Verified, expected |-> -1, received |-> -1, users |-> us, user |-> 0]

\* action answering whatever its guard found
action_ignores_failure(us, cred) ==
    [NonceGuard(us, cred) EXCEPT !.outcome = Verified, !.expected = -1, !.received = -1]

\* action declared with the guard twice: the second guard runs on what the
\* first one left
action_double_guard(us, cred) ==
    LET g == NonceGuard(us, cred) IN
    IF g.outcome = "Ok"
    THEN LET h == NonceGuard(g.users, cred) IN
         IF h.outcome = "Ok" THEN [h EXCEPT !.outcome = Verified] ELSE h
    ELSE g

\* the route `action`: the handler runs only when its NonceGuard succeeded
action(us, cred) ==
    LET g == NonceGuard(us, cred) IN
    IF g.outcome = "Ok"
    THEN [g EXCEPT !.outcome = Verified]
    ELSE g

NonceGuardTest(cred) ==
    \E r \in {action(users, cred)} :
    /\ NonceBound(r.users)
    /\ users' = r.users
    /\ last' = Resp("action", r.outcome, r.expected, r.received, -1)
    /\ UNCHANGED <<relationships, proofs, tasks>>

----------------------------------------------------------------------------
(* POST /user/create *)

\* create_user without the match arm of a taken username with a free key
create_user_outcome_no_username_arm(us, username, pubkey, signature) ==
    IF StrLen(username) > MAX_USERNAME_CHARS THEN "UsernameTooLong"
    ELSE IF ~is_ascii(username) THEN "UsernameNotAscii"
    ELSE IF pubkey = BadKey \/ signature = BadSig THEN "Panic"
    ELSE IF ~verify(pubkey, signature, convert_username_to_fr(username)) THEN "Signature"
    ELSE LET found == check_creation_params(us, username, pubkey) IN
         IF found = <<TRUE, TRUE>> THEN "UserExists"
         ELSE IF found = <<FALSE, TRUE>> THEN "PubkeyExists"
         ELSE "Created"

\* create_user going on after a signature that does not verify
create_user_outcome_no_signature(us, username, pubkey, signature) ==
    IF StrLen(username) > MAX_USERNAME_CHARS THEN "UsernameTooLong"
    ELSE IF ~is_ascii(username) THEN "UsernameNotAscii"
    ELSE IF pubkey = BadKey \/ signature = BadSig THEN "Panic"
    ELSE LET found == check_creation_params(us, username, pubkey) IN
         IF found = <<TRUE, TRUE>> THEN "UserExists"
         ELSE IF found = <<TRUE, FALSE>> THEN "UsernameExists"
         ELSE IF found = <<FALSE, TRUE>> THEN "PubkeyExists"
         ELSE "Created"

\* create_user with the errors of the two one-sided match arms exchanged
create_user_outcome_arms_swapped(us, username, pubkey, signature) ==
    IF StrLen(username) > MAX_USERNAME_CHARS THEN "UsernameTooLong"
    ELSE IF ~is_ascii(username) THEN "UsernameNotAscii"
    ELSE IF pubkey = BadKey \/ signature = BadSig THEN "Panic"
    ELSE IF ~verify(pubkey, signature, convert_username_to_fr(username)) THEN "Signature"
    ELSE LET found == check_creation_params(us, username, pubkey) IN
         IF found = <<TRUE, TRUE>> THEN "UserExists"
         ELSE IF found = <<TRUE, FALSE>> THEN "PubkeyExists"
         ELSE IF found = <<FALSE, TRUE>> THEN "UsernameExists"
         ELSE "Created"

\* outcome of create_user, by the order of its checks
create_user_outcome(us, username, pubkey, signature) ==
    IF StrLen(username) > MAX_USERNAME_CHARS THEN "UsernameTooLong"
    ELSE IF ~is_ascii(username) THEN "UsernameNotAscii"
    ELSE IF pubkey = BadKey \/ signature = BadSig THEN "Panic"
    ELSE IF ~verify(pubkey, signature, convert_username_to_fr(username)) THEN "Signature"
    ELSE LET found == check_creation_params(us, username, pubkey) IN
         IF found = <<TRUE, TRUE>> THEN "UserExists"
         ELSE IF found = <<TRUE, FALSE>> THEN "UsernameExists"
         ELSE IF found = <<FALSE, TRUE>> THEN "PubkeyExists"
         ELSE "Created"

\* the User document built with the nonce of a user that has authenticated
NewUser_nonce_one(username, pubkey) ==
    [username |-> username, pubkey |-> pubkey, nonce |-> 1,
     relationships |-> <<>>, degree_proofs |-> <<>>]

\* the User document create_user builds
NewUser(username, pubkey) ==
    [username |-> username, pubkey |-> pubkey, nonce |-> 0,
     relationships |-> <<>>, degree_proofs |-> <<>>]

\* GrapevineDB::create_user
db_create_user(us, user) == Append(us, user)

\* create_user writing the new document over the registered one when the
\* username and the key are both taken
create_user_upsert(username, pubkey, signature) ==
    \E outcome \in {create_user_outcome(users, username, pubkey, signature)} :
    /\ users' = IF outcome = "Created"
                THEN db_create_user(users, NewUser(username, pubkey))
                ELSE IF outcome = "UserExists"
                THEN [users EXCEPT ![get_user(users, username)] =
                                       NewUser(username, pubkey)]
                ELSE users
    /\ last' = Resp("create_user", outcome, -1, -1, -1)
    /\ UNCHANGED <<relationships, proofs, tasks>>

create_user(username, pubkey, signature) ==
    \E outcome \in {create_user_outcome(users, username, pubkey, signature)} :
    /\ users' = IF outcome = "Created"
                THEN db_create_user(users, NewUser(username, pubkey))
                ELSE users
    /\ last' = Resp("create_user", outcome, -1, -1, -1)
    /\ UNCHANGED <<relationships, proofs, tasks>>

----------------------------------------------------------------------------
(* POST /user/relationship *)

EphemeralKeys == {"ek"}
Ciphertexts == {"ct"}

\* GrapevineDB::add_relationship: stores the edge and appends its id to the
\* relationship list of both identities
db_add_relationship(us, rels, doc) ==
    LET id == Len(rels) + 1 IN
    [relationships |-> Append(rels, doc),
     users |-> [i \in 1..Len(us) |->
                  IF i = doc.sender \/ i = doc.recipient
                  THEN [us[i] EXCEPT !.relationships = Append(@, id)]
                  ELSE us[i]]]

\* add_relationship without the comparison of the sender with the target
add_relationship_no_self_check(us, rels, cred, sig, to, ephemeral_key, ciphertext) ==
    LET g == AuthenticatedUser(us, cred, sig)
        fail(o) == [outcome |-> o, expected |-> -1, received |-> -1,
                    users |-> g.users, relationships |-> rels]
    IN
    IF g.outcome # "Ok"
    THEN [outcome |-> g.outcome, expected |-> g.expected, received |-> g.received,
          users |-> g.users, relationships |-> rels]
    ELSE LET sender == get_user(g.users, cred.username)
             recipient == get_user(g.users, to)
         IN
         IF recipient = 0 THEN fail("RecipientNotFound")
         ELSE LET doc == [sender |-> sender, recipient |-> recipient,
                          ephemeral_key |-> ephemeral_key, ciphertext |-> ciphertext]
                  d == db_add_relationship(g.users, rels, doc)
              IN
              [outcome |-> "Created", expected |-> -1, received |-> -1,
               users |-> d.users, relationships |-> d.relationships]

\* add_relationship storing the user named in the body as the sender and
\* the authenticated user as the recipient
add_relationship_sender_from_body(us, rels, cred, sig, to, ephemeral_key, ciphertext) ==
    LET g == AuthenticatedUser(us, cred, sig)
        fail(o) == [outcome |-> o, expected |-> -1, received |-> -1,
                    users |-> g.users, relationships |-> rels]
    IN
    IF g.outcome # "Ok"
    THEN [outcome |-> g.outcome, expected |-> g.expected, received |-> g.received,
          users |-> g.users, relationships |-> rels]
    ELSE IF cred.username = to THEN fail("RelationshipSenderIsTarget")
    ELSE LET sender == get_user(g.users, to)
             recipient == get_user(g.users, cred.username)
         IN
         IF sender = 0 THEN fail("RecipientNotFound")
         ELSE LET doc == [sender |-> sender, recipient |-> recipient,
                          ephemeral_key |-> ephemeral_key, ciphertext |-> ciphertext]
                  d == db_add_relationship(g.users, rels, doc)
              IN
              [outcome |-> "Created", expected |-> -1, received |-> -1,
               users |-> d.users, relationships |-> d.relationships]

\* add_relationship answering a request for a pair that already has a
\* relationship with Created and storing nothing
add_relationship_once_per_pair(us, rels, cred, sig, to, ephemeral_key, ciphertext) ==
    LET g == AuthenticatedUser(us, cred, sig)
        fail(o) == [outcome |-> o, expected |-> -1, received |-> -1,
                    users |-> g.users, relationships |-> rels]
    IN
    IF g.outcome # "Ok"
    THEN [outcome |-> g.outcome, expected |-> g.expected, received |-> g.received,
          users |-> g.users, relationships |-> rels]
    ELSE IF cred.username = to THEN fail("RelationshipSenderIsTarget")
    ELSE LET sender == get_user(g.users, cred.username)
             recipient == get_user(g.users, to)
         IN
         IF recipient = 0 THEN fail("RecipientNotFound")
         ELSE IF \E e \in 1..Len(rels) :
                    rels[e].sender = sender /\ rels[e].recipient = recipient
         THEN fail("Created")
         ELSE LET doc == [sender |-> sender, recipient |-> recipient,
                          ephemeral_key |-> ephemeral_key, ciphertext |-> ciphertext]
                  d == db_add_relationship(g.users, rels, doc)
              IN
              [outcome |-> "Created", expected |-> -1, received |-> -1,
               users |-> d.users, relationships |-> d.relationships]

\* add_relationship taking the id of the recipient without the match on
\* the lookup: an unknown recipient is stored as no user
add_relationship_unknown_recipient(us, rels, cred, sig, to, ephemeral_key, ciphertext) ==
    LET g == AuthenticatedUser(us, cred, sig)
        fail(o) == [outcome |-> o, expected |-> -1, received |-> -1,
                    users |-> g.users, relationships |-> rels]
    IN
    IF g.outcome # "Ok"
    THEN [outcome |-> g.outcome, expected |-> g.expected, received |-> g.received,
          users |-> g.users, relationships |-> rels]
    ELSE IF cred.username = to THEN fail("RelationshipSenderIsTarget")
    ELSE LET sender == get_user(g.users, cred.username)
             recipient == get_user(g.users, to)
             doc == [sender |-> sender, recipient |-> recipient,
                     ephemeral_key |-> ephemeral_key, ciphertext |-> ciphertext]
             d == db_add_relationship(g.users, rels, doc)
         IN
         [outcome |-> "Created", expected |-> -1, received |-> -1,
          users |-> d.users, relationships |-> d.relationships]

\* result of add_relationship: the outcome and the collections it leaves
add_relationship(us, rels, cred, sig, to, ephemeral_key, ciphertext) ==
    LET g == AuthenticatedUser(us, cred, sig)
        fail(o) == [outcome |-> o, expected |-> -1, received |-> -1,
                    users |-> g.users, relationships |-> rels]
    IN
    IF g.outcome # "Ok"
    THEN [outcome |-> g.outcome, expected |-> g.expected, received |-> g.received,
          users |-> g.users, relationships |-> rels]
    ELSE IF cred.username = to THEN fail("RelationshipSenderIsTarget")
    ELSE LET sender == get_user(g.users, cred.username)
             recipient == get_user(g.users, to)
         IN
         IF recipient = 0 THEN fail("RecipientNotFound")
         ELSE LET doc == [sender |-> sender, recipient |-> recipient,
                          ephemeral_key |-> ephemeral_key, ciphertext |-> ciphertext]
                  d == db_add_relationship(g.users, rels, doc)
              IN
              [outcome |-> "Created", expected |-> -1, received |-> -1,
               users |-> d.users, relationships |-> d.relationships]

\* add_relationship serving a request, explored up to `nonces` as the
\* stored nonce
AddRelationshipUpTo(cred, sig, to, ephemeral_key, ciphertext, nonces) ==
    \E r \in {add_relationship(users, relationships, cred, sig, to, ephemeral_key,
                              ciphertext)} :
    /\ NonceBoundUpTo(r.users, nonces)
    /\ Len(r.relationships) <= MaxRels
    /\ users' = r.users
    /\ relationships' = r.relationships
    /\ last' = Resp("add_relationship", r.outcome, r.expected, r.received, -1)
    /\ UNCHANGED <<proofs, tasks>>

AddRelationship(cred, sig, to, ephemeral_key, ciphertext) ==
    AddRelationshipUpTo(cred, sig, to, ephemeral_key, ciphertext, MaxNonce)

----------------------------------------------------------------------------
(* Degree proofs (routes/proof.rs) *)

PhraseHashes == {"p1", "p2"}
AuthHashes == {"h1"}

\* folding step counts of the proofs a client submits
StepCounts == {2, 4, 6}

\* gzip-compressed fold proofs: a proof folded over `steps` steps whose
\* public outputs are (step counter, phrase hash, auth hash), or bytes that
\* do not verify
BadProof == [valid |-> FALSE, steps |-> 0, phrase |-> "", auth |-> ""]
ProofBytes ==
    {[valid |-> TRUE, steps |-> n, phrase |-> p, auth |-> a] :
        n \in StepCounts, p \in PhraseHashes, a \in AuthHashes} \cup {BadProof}

\* verify_nova_proof(proof, params, num_steps): the public outputs of a
\* proof that verifies for the step count, or an error
verify_nova_proof(proof, num_steps) ==
    IF proof.valid /\ proof.steps = num_steps
    THEN [ok |-> TRUE, res |-> <<num_steps, proof.phrase, proof.auth>>]
    ELSE [ok |-> FALSE, res |-> <<>>]

\* res.0[i], the Rust index is zero based
Slot(res, i) == res[i + 1]

\* a request body that bincode cannot deserialize
Undecodable == [kind |-> "undecodable"]

\* NewPhraseRequest
NewPhraseRequests ==
    {[kind |-> "phrase", username |-> u, proof |-> p] : u \in GoodNames, p \in ProofBytes}

\* declared degrees and previous-proof ids of the DegreeProofRequests sent;
\* previous = 0 is a string that is no ObjectId
Degrees == {1, 2, 3}
PreviousIds == 0..(MaxProofs + 1)

\* DegreeProofRequest
DegreeProofRequests ==
    {[kind |-> "degree", username |-> u, proof |-> p, previous |-> prev, degree |-> d] :
        u \in GoodNames, p \in ProofBytes, prev \in PreviousIds, d \in Degrees}

\* Authorization headers sent to /phrase/continue: none, or a stale one
DegreeProofCreds == {NoCred, [kind |-> "ok", username |-> alice, nonce |-> 0]}

\* GrapevineDB::add_proof: stores the proof, appends its id to the owner's
\* degree_proofs and to the proceeding list of the proof it builds on; fails
\* when the preceding proof does not resolve
db_add_proof(us, prfs, user, doc) ==
    LET id == Len(prfs) + 1 IN
    IF doc.preceding # 0 /\ doc.preceding \notin 1..Len(prfs)
    THEN [ok |-> FALSE, users |-> us, proofs |-> prfs]
    ELSE [ok |-> TRUE,
          users |-> [us EXCEPT ![user].degree_proofs = Append(@, id)],
          proofs |-> Append([i \in 1..Len(prfs) |->
                               IF i = doc.preceding
                               THEN [prfs[i] EXCEPT !.proceeding = Append(@, id)]
                               ELSE prfs[i]],
                            doc)]

\* create_phrase taking its guard as an Option: a request the guard turned
\* away is forwarded to the handler, which goes on without it
create_phrase_optional_guard(us, prfs, cred, request) ==
    LET g == NonceGuard(us, cred)
        fail(o) == [outcome |-> o, expected |-> -1, received |-> -1,
                    users |-> g.users, proofs |-> prfs]
    IN
    IF request.kind # "phrase" THEN fail("BadRequest")
    ELSE LET verify_res == verify_nova_proof(request.proof, 2) IN
         IF ~verify_res.ok THEN fail("BadRequest")
         ELSE LET user == get_user(g.users, request.username) IN
              IF user = 0 THEN fail("Panic")
              ELSE LET proof_doc ==
                         [phrase_hash |-> Slot(verify_res.res, 1),
                          auth_hash |-> Slot(verify_res.res, 2),
                          user |-> user,
                          degree |-> 1,
                          proof |-> request.proof,
                          preceding |-> 0,
                          proceeding |-> <<>>]
                       d == db_add_proof(g.users, prfs, user, proof_doc)
                   IN
                   IF d.ok
                   THEN [outcome |-> "Created", expected |-> -1, received |-> -1,
                         users |-> d.users, proofs |-> d.proofs]
                   ELSE fail("NotImplemented")

\* result of create_phrase: the outcome and the collections it leaves
create_phrase(us, prfs, cred, request) ==
    LET g == NonceGuard(us, cred)
        fail(o) == [outcome |-> o, expected |-> -1, received |-> -1,
                    users |-> g.users, proofs |-> prfs]
    IN
    IF g.outcome # "Ok"
    THEN [outcome |-> g.outcome, expected |-> g.expected, received |-> g.received,
          users |-> g.users, proofs |-> prfs]
    ELSE IF request.kind # "phrase" THEN fail("BadRequest")
    ELSE LET verify_res == verify_nova_proof(request.proof, 2) IN
         IF ~verify_res.ok THEN fail("BadRequest")
         ELSE LET user == get_user(g.users, request.username) IN
              IF user = 0 THEN fail("Panic")
              ELSE LET proof_doc ==
                         [phrase_hash |-> Slot(verify_res.res, 1),
                          auth_hash |-> Slot(verify_res.res, 2),
                          user |-> user,
                          degree |-> 1,
                          proof |-> request.proof,
                          preceding |-> 0,
                          proceeding |-> <<>>]
                       d == db_add_proof(g.users, prfs, user, proof_doc)
                   IN
                   IF d.ok
                   THEN [outcome |-> "Created", expected |-> -1, received |-> -1,
                         users |-> d.users, proofs |-> d.proofs]
                   ELSE fail("NotImplemented")

\* create_phrase serving a request, explored up to `nonces` as the stored
\* nonce and `bound` stored proofs
CreatePhraseUpTo(cred, request, nonces, bound) ==
    \E r \in {create_phrase(users, proofs, cred, request)} :
    /\ NonceBoundUpTo(r.users, nonces)
    /\ Len(r.proofs) <= bound
    /\ users' = r.users
    /\ proofs' = r.proofs
    /\ last' = Resp("create_phrase", r.outcome, r.expected, r.received, -1)
    /\ UNCHANGED <<relationships, tasks>>

CreatePhrase(cred, request) == CreatePhraseUpTo(cred, request, MaxNonce, MaxProofs)

\* degree_proof keeping the proof document when add_proof fails to link it
\* to the proof it builds on
degree_proof_partial_commit(us, prfs, cred, request) ==
    LET fail(o) == [outcome |-> o, users |-> us, proofs |-> prfs] IN
    IF request.kind # "degree" THEN fail("BadRequest")
    ELSE LET verify_res == verify_nova_proof(request.proof, request.degree * 2) IN
         IF ~verify_res.ok THEN fail("BadRequest")
         ELSE LET user == get_user(us, request.username) IN
              IF user = 0 \/ request.previous = 0 THEN fail("Panic")
              ELSE LET proof_doc ==
                         [phrase_hash |-> Slot(verify_res.res, 1),
                          auth_hash |-> Slot(verify_res.res, 2),
                          user |-> user,
                          degree |-> request.degree,
                          proof |-> request.proof,
                          preceding |-> request.previous,
                          proceeding |-> <<>>]
                       d == db_add_proof(us, prfs, user, proof_doc)
                   IN
                   IF d.ok
                   THEN [outcome |-> "Created", users |-> d.users, proofs |-> d.proofs]
                   ELSE [outcome |-> "NotImplemented", users |-> us,
                         proofs |-> Append(prfs, proof_doc)]

\* degree_proof verifying for the declared degree as the step count, the
\* doubling left out
degree_proof_steps_not_doubled(us, prfs, cred, request) ==
    LET fail(o) == [outcome |-> o, users |-> us, proofs |-> prfs] IN
    IF request.kind # "degree" THEN fail("BadRequest")
    ELSE LET verify_res ==
                 IF request.degree = 1
                 THEN verify_nova_proof(request.proof, 2)
                 ELSE verify_nova_proof(request.proof, request.degree)
         IN
         IF ~verify_res.ok THEN fail("BadRequest")
         ELSE LET user == get_user(us, request.username) IN
              IF user = 0 \/ request.previous = 0 THEN fail("Panic")
              ELSE LET proof_doc ==
                         [phrase_hash |-> Slot(verify_res.res, 1),
                          auth_hash |-> Slot(verify_res.res, 2),
                          user |-> user,
                          degree |-> request.degree,
                          proof |-> request.proof,
                          preceding |-> request.previous,
                          proceeding |-> <<>>]
                       d == db_add_proof(us, prfs, user, proof_doc)
                   IN
                   IF d.ok
                   THEN [outcome |-> "Created", users |-> d.users, proofs |-> d.proofs]
                   ELSE fail("NotImplemented")

\* degree_proof building the document with the proof it builds on in the
\* list of proceeding proofs as well
degree_proof_proceeding_seeded(us, prfs, cred, request) ==
    LET fail(o) == [outcome |-> o, users |-> us, proofs |-> prfs] IN
    IF request.kind # "degree" THEN fail("BadRequest")
    ELSE LET verify_res == verify_nova_proof(request.proof, request.degree * 2) IN
         IF ~verify_res.ok THEN fail("BadRequest")
         ELSE LET user == get_user(us, request.username) IN
              IF user = 0 \/ request.previous = 0 THEN fail("Panic")
              ELSE LET proof_doc ==
                         [phrase_hash |-> Slot(verify_res.res, 1),
                          auth_hash |-> Slot(verify_res.res, 2),
                          user |-> user,
                          degree |-> request.degree,
                          proof |-> request.proof,
                          preceding |-> request.previous,
                          proceeding |-> <<request.previous>>]
                       d == db_add_proof(us, prfs, user, proof_doc)
                   IN
                   IF d.ok
                   THEN [outcome |-> "Created", users |-> d.users, proofs |-> d.proofs]
                   ELSE fail("NotImplemented")

\* result of degree_proof: the route takes no request guard, the
\* Authorization header of the request is not read
degree_proof(us, prfs, cred, request) ==
    LET fail(o) == [outcome |-> o, users |-> us, proofs |-> prfs] IN
    IF request.kind # "degree" THEN fail("BadRequest")
    ELSE LET verify_res == verify_nova_proof(request.proof, request.degree * 2) IN
         IF ~verify_res.ok THEN fail("BadRequest")
         ELSE LET user == get_user(us, request.username) IN
              IF user = 0 \/ request.previous = 0 THEN fail("Panic")
              ELSE LET proof_doc ==
                         [phrase_hash |-> Slot(verify_res.res, 1),
                          auth_hash |-> Slot(verify_res.res, 2),
                          user |-> user,
                          degree |-> request.degree,
                          proof |-> request.proof,
                          preceding |-> request.previous,
                          proceeding |-> <<>>]
                       d == db_add_proof(us, prfs, user, proof_doc)
                   IN
                   IF d.ok
                   THEN [outcome |-> "Created", users |-> d.users, proofs |-> d.proofs]
                   ELSE fail("NotImplemented")

\* degree_proof serving a request, explored up to `bound` stored proofs
DegreeProofUpTo(cred, request, bound) ==
    \E r \in {degree_proof(users, proofs, cred, request)} :
    /\ Len(r.proofs) <= bound
    /\ users' = r.users
    /\ proofs' = r.proofs
    /\ last' = Resp("degree_proof", r.outcome, -1, -1, -1)
    /\ UNCHANGED <<relationships, tasks>>

DegreeProof(cred, request) == DegreeProofUpTo(cred, request, MaxProofs)

----------------------------------------------------------------------------
(* Queries *)

\* GrapevineDB::get_nonce: the stored nonce (and public key) of a user
db_get_nonce(us, username) == get_user(us, username)

\* get_nonce returning the nonce of a registered user whatever the signature
get_nonce_no_signature_check(us, username, signature) ==
    LET i == db_get_nonce(us, username) IN
    IF i = 0 THEN [outcome |-> "NotFound", value |-> -1]
    ELSE [outcome |-> "Ok", value |-> us[i].nonce]

\* outcome and value of get_nonce
get_nonce(us, username, signature) ==
    LET i == db_get_nonce(us, username) IN
    IF i = 0 THEN [outcome |-> "NotFound", value |-> -1]
    ELSE IF signature = BadSig THEN [outcome |-> "Panic", value |-> -1]
    ELSE IF ~verify(us[i].pubkey, signature, convert_username_to_fr(username))
         THEN [outcome |-> "Signature", value |-> -1]
    ELSE [outcome |-> "Ok", value |-> us[i].nonce]

GetNonce(username, signature) ==
    \E r \in {get_nonce(users, username, signature)} :
    /\ last' = Resp("get_nonce", r.outcome, -1, -1, r.value)
    /\ UNCHANGED <<users, relationships, proofs, tasks>>

\* get_all_degrees: behind the AuthenticatedUser guard, reads only
get_all_degrees(us, cred, sig) ==
    LET g == AuthenticatedUser(us, cred, sig) IN
    IF g.outcome = "Ok" THEN [g EXCEPT !.outcome = "Degrees"] ELSE g

GetAllDegrees(cred, sig) ==
    \E r \in {get_all_degrees(users, cred, sig)} :
    /\ NonceBound(r.users)
    /\ users' = r.users
    /\ last' = Resp("get_all_degrees", r.outcome, r.expected, r.received, -1)
    /\ UNCHANGED <<relationships, proofs, tasks>>

\* whether proof i is one user u may build on: its owner has a
\* relationship to u and u holds no proceeding proof on its phrase hash
Available(us, rels, prfs, u, i) ==
    /\ \E e \in 1..Len(rels) : rels[e].sender = prfs[i].user /\ rels[e].recipient = u
    /\ ~\E q \in 1..Len(prfs) :
           /\ prfs[q].user = u
           /\ prfs[q].preceding # 0
           /\ prfs[q].phrase_hash = prfs[i].phrase_hash

\* the ids from i on of the proofs user u may build on, in order
RECURSIVE AvailableFrom(_, _, _, _, _)
AvailableFrom(us, rels, prfs, u, i) ==
    IF i > Len(prfs) THEN <<>>
    ELSE IF Available(us, rels, prfs, u, i)
         THEN <<i>> \o AvailableFrom(us, rels, prfs, u, i + 1)
         ELSE AvailableFrom(us, rels, prfs, u, i + 1)

\* GrapevineDB::find_available_degrees: the ids of the proofs the user may
\* build on, none for an unknown user
find_available_degrees(us, rels, prfs, username) ==
    LET u == get_user(us, username) IN
    IF u = 0 THEN <<>> ELSE AvailableFrom(us, rels, prfs, u, 1)

\* get_available_proofs listing a proof once for every relationship from
\* its owner to the user
get_available_proofs_per_edge(us, rels, prfs, username) ==
    LET found == find_available_degrees(us, rels, prfs, username)
        u == get_user(us, username)
        twice == \E e1, e2 \in 1..Len(rels) :
                    /\ e1 # e2
                    /\ rels[e1].recipient = u /\ rels[e2].recipient = u
                    /\ rels[e1].sender = rels[e2].sender
    IN
    [outcome |-> "Ok", value |-> IF twice THEN found \o found ELSE found]

\* result of get_available_proofs: the route takes no request guard
get_available_proofs(us, rels, prfs, username) ==
    [outcome |-> "Ok", value |-> find_available_degrees(us, rels, prfs, username)]

GetAvailableProofs(username) ==
    \E r \in {get_available_proofs(users, relationships, proofs, username)} :
    /\ last' = Resp("get_available_proofs", r.outcome, -1, -1, r.value)
    /\ UNCHANGED <<users, relationships, proofs, tasks>>

\* nothing found
None == [found |-> FALSE]

\* GrapevineDB::get_proof_and_data: the proof and, of the relationship from
\* its owner to the requesting user, the ephemeral key and the ciphertext
get_proof_and_data(us, rels, prfs, username, oid) ==
    LET u == get_user(us, username) IN
    IF u = 0 \/ oid \notin 1..Len(prfs) THEN None
    ELSE LET edges == {e \in 1..Len(rels) :
                         rels[e].sender = prfs[oid].user /\ rels[e].recipient = u}
         IN
         IF edges = {} THEN None
         ELSE LET e == CHOOSE x \in edges : \A y \in edges : x <= y IN
              [found |-> TRUE,
               degree |-> prfs[oid].degree,
               proof |-> prfs[oid].proof,
               username |-> us[prfs[oid].user].username,
               ephemeral_key |-> rels[e].ephemeral_key,
               ciphertext |-> rels[e].ciphertext]

\* result of get_proof_with_params: oid = 0 is a string that is no ObjectId
get_proof_with_params(us, rels, prfs, oid, username) ==
    IF oid = 0 THEN [outcome |-> "Panic", value |-> None]
    ELSE LET data == get_proof_and_data(us, rels, prfs, username, oid) IN
         IF data.found
         THEN [outcome |-> "Ok", value |-> data]
         ELSE [outcome |-> "NotFound", value |-> None]

GetProofWithParams(oid, username) ==
    \E r \in {get_proof_with_params(users, relationships, proofs, oid, username)} :
    /\ last' = Resp("get_proof_with_params", r.outcome, -1, -1, r.value)
    /\ UNCHANGED <<users, relationships, proofs, tasks>>

----------------------------------------------------------------------------
(* The server: requests of every route, served one at a time *)

Sig(k, u) == [signer |-> k, msg |-> convert_username_to_fr(u)]

\* registration requests sent to the server
Registrations ==
    {<<alice, "kA", Sig("kA", alice)>>,
     <<bob, "kB", Sig("kB", bob)>>,
     <<bob, "kA", Sig("kA", bob)>>,
     <<alice, "kA", Sig("kB", alice)>>,
     <<alice, "kA", BadSig>>,
     <<TooLongName, "kA", Sig("kA", alice)>>,
     <<NonAsciiName, "kB", Sig("kB", bob)>>}

\* signatures sent with a credential
CredSigs == {Sig("kA", alice), Sig("kB", bob), Sig("kA", bob), BadSig}

\* proofs sent to the server: of one or two degrees, or not verifying
SentProofs == {p \in ProofBytes : p.phrase # "p2"}

SentPhraseRequests == {r \in NewPhraseRequests : r.proof \in SentProofs} \cup {Undecodable}

\* continuation requests sent: the proof folded over twice the declared
\* degree, a degree 1 proof under a larger declared degree, or a proof that
\* does not verify
SentDegreeRequests ==
    {r \in DegreeProofRequests :
        /\ r.proof \in SentProofs
        /\ r.proof.valid => r.proof.steps \in {2 * r.degree, 2}
        /\ ~r.proof.valid => (r.degree = 1 /\ r.previous = 1)} \cup {Undecodable}

Next ==
    \/ \E r \in Registrations : create_user(r[1], r[2], r[3])
    \/ \E c \in Creds : NonceGuardTest(c)
    \/ \E c \in Creds, s \in CredSigs, to \in GoodNames,
          ek \in EphemeralKeys, ct \in Ciphertexts :
          AddRelationship(c, s, to, ek, ct)
    \/ \E c \in Creds, r \in SentPhraseRequests : CreatePhrase(c, r)
    \/ \E c \in DegreeProofCreds, r \in SentDegreeRequests : DegreeProof(c, r)
    \/ \E u \in GoodNames, s \in CredSigs : GetNonce(u, s)
    \/ \E c \in Creds, s \in CredSigs : GetAllDegrees(c, s)

Spec == Init /\ [][Next]_vars

----------------------------------------------------------------------------
(* The identity registry and the nonce guard alone, over every *)
(* registration request                                        *)

NextIdentity ==
    \/ \E u \in Usernames, k \in Keys \cup {BadKey}, s \in Signatures :
          create_user(u, k, s)
    \/ \E c \in Creds : NonceGuardTest(c)
    \/ \E u \in GoodNames, s \in Signatures : GetNonce(u, s)

SpecIdentity == Init /\ [][NextIdentity]_vars

----------------------------------------------------------------------------
(* The guarded routes, each with a request that passes its handler and *)
(* requests that do not                                                 *)

GuardRegistrations ==
    {<<alice, "kA", Sig("kA", alice)>>, <<bob, "kB", Sig("kB", bob)>>}

GuardSigs == {Sig("kA", alice), Sig("kB", bob), BadSig}

GuardPhraseRequests ==
    {[kind |-> "phrase", username |-> alice,
      proof |-> [valid |-> TRUE, steps |-> 2, phrase |-> "p1", auth |-> "h1"]],
     [kind |-> "phrase", username |-> alice, proof |-> BadProof],
     Undecodable}

NextGuard ==
    \/ \E r \in GuardRegistrations : create_user(r[1], r[2], r[3])
    \/ \E c \in Creds : NonceGuardTest(c)
    \/ \E c \in Creds, s \in GuardSigs, to \in GoodNames,
          ek \in EphemeralKeys, ct \in Ciphertexts :
          AddRelationship(c, s, to, ek, ct)
    \/ \E c \in Creds, r \in GuardPhraseRequests : CreatePhrase(c, r)
    \/ \E c \in Creds, s \in GuardSigs : GetAllDegrees(c, s)

SpecGuard == Init /\ [][NextGuard]_vars

----------------------------------------------------------------------------
(* The proof store: origin proofs, continuations and the edges they are *)
(* handed along                                                          *)

ChainPhraseRequests ==
    {[kind |-> "phrase", username |-> u,
      proof |-> [valid |-> TRUE, steps |-> 2, phrase |-> "p1", auth |-> "h1"]] :
        u \in GoodNames}
      \cup {[kind |-> "phrase", username |-> alice, proof |-> BadProof]}

\* continuation requests of degree 1 and 2: on the phrase of the origin
\* proofs with the proof folded over 2 steps or twice the degree, on
\* another phrase folded over twice the degree, or not verifying
ChainDegreeRequests ==
    {r \in DegreeProofRequests :
        /\ r.degree <= 2
        /\ r.proof.valid =>
              \/ r.proof.phrase = "p1" /\ r.proof.steps \in {2 * r.degree, 2}
              \/ r.proof.phrase = "p2" /\ r.proof.steps = 2 * r.degree /\ r.degree = 2
        /\ ~r.proof.valid => (r.degree = 1 /\ r.previous = 1)} \cup {Undecodable}

\* the credentials of the requests that create relationships and phrases
ChainCreds == {[kind |-> "ok", username |-> u, nonce |-> n] :
                  u \in GoodNames, n \in 0..MaxNonce}

\* the signature of a registered user over its own username
SelfSig(u) == IF u = alice THEN Sig("kA", alice) ELSE Sig("kB", bob)

ChainCiphertexts == {"ct", "ct2"}

NextProofs ==
    \/ \E r \in GuardRegistrations : create_user(r[1], r[2], r[3])
    \/ \E c \in ChainCreds, to \in GoodNames,
          ek \in EphemeralKeys, ct \in ChainCiphertexts :
          AddRelationship(c, SelfSig(c.username), to, ek, ct)
    \/ \E c \in ChainCreds, r \in ChainPhraseRequests : CreatePhrase(c, r)
    \/ \E r \in ChainDegreeRequests : DegreeProof(NoCred, r)
    \/ \E u \in GoodNames : GetAvailableProofs(u)
    \/ \E oid \in PreviousIds, u \in GoodNames : GetProofWithParams(oid, u)

SpecProofs == Init /\ [][NextProofs]_vars

----------------------------------------------------------------------------
(* The frontier: origin proofs and continuations on one phrase, and the *)
(* proofs each user may build on                                        *)

\* origin proofs on one phrase, each sent by its owner
FrontierPhraseRequest(u) ==
    [kind |-> "phrase", username |-> u,
     proof |-> [valid |-> TRUE, steps |-> 2, phrase |-> "p1", auth |-> "h1"]]

\* continuations of degree 2 on that phrase from a stored proof
FrontierDegreeRequests ==
    {[kind |-> "degree", username |-> u,
      proof |-> [valid |-> TRUE, steps |-> 4, phrase |-> "p1", auth |-> "h1"],
      previous |-> prev, degree |-> 2] : u \in GoodNames, prev \in 1..MaxChain}

NextFrontier ==
    \/ \E r \in GuardRegistrations : create_user(r[1], r[2], r[3])
    \/ \E c \in ChainCreds, to \in GoodNames,
          ek \in EphemeralKeys, ct \in Ciphertexts :
          AddRelationshipUpTo(c, SelfSig(c.username), to, ek, ct, MaxChainNonce)
    \/ \E c \in ChainCreds :
          CreatePhraseUpTo(c, FrontierPhraseRequest(c.username), MaxChainNonce, MaxChain)
    \/ \E r \in FrontierDegreeRequests : DegreeProofUpTo(NoCred, r, MaxChain)
    \/ \E u \in GoodNames : GetAvailableProofs(u)

SpecFrontier == Init /\ [][NextFrontier]_vars

----------------------------------------------------------------------------
(* Registration alone, over usernames at and around the length limit *)

\* a username of exactly MAX_USERNAME_CHARS ASCII characters
MaxLenName == [i \in 1..MAX_USERNAME_CHARS |-> 97]

\* a username of 16 two-byte characters: more than MAX_USERNAME_CHARS bytes
\* in fewer than MAX_USERNAME_CHARS characters
MultiByteName ==
    [i \in 1..(MAX_USERNAME_CHARS + 2) |-> IF i % 2 = 1 THEN 195 ELSE 169]

LengthNames == Usernames \cup {MaxLenName, MultiByteName}

NameSignatures == Signatures \cup {Sig(k, MaxLenName) : k \in Keys}

NextNames ==
    \/ \E u \in LengthNames, k \in Keys \cup {BadKey}, s \in NameSignatures :
          create_user(u, k, s)
    \/ \E c \in Creds : NonceGuardTest(c)

SpecNames == Init /\ [][NextNames]_vars

----------------------------------------------------------------------------
(* Concurrent /nonce-guard-test requests: each handler invocation is a   *)
(* task, the guard of a task runs at some point after the request is sent *)

\* whether the credential names a registered user's stored nonce
Current(us, cred) ==
    /\ cred.kind = "ok"
    /\ get_user(us, cred.username) # 0
    /\ us[get_user(us, cred.username)].nonce = cred.nonce

TaskSend(t, cred) ==
    /\ tasks[t].pc = "idle"
    /\ tasks' = [tasks EXCEPT ![t] = [pc |-> "sent", cred |-> cred, outcome |-> "none",
                                      fresh |-> Current(users, cred)]]
    /\ UNCHANGED <<users, relationships, proofs, last>>

TaskServe(t) ==
    /\ tasks[t].pc = "sent"
    /\ \E r \in {action(users, tasks[t].cred)} :
          /\ NonceBound(r.users)
          /\ users' = r.users
          /\ tasks' = [tasks EXCEPT ![t].pc = "done", ![t].outcome = r.outcome]
    /\ UNCHANGED <<relationships, proofs, last>>

NextRace ==
    \/ \E r \in Registrations : create_user(r[1], r[2], r[3])
    \/ \E t \in 1..NumTasks, c \in Creds : TaskSend(t, c)
    \/ \E t \in 1..NumTasks : TaskServe(t)

SpecRace == Init /\ [][NextRace]_vars

----------------------------------------------------------------------------
(* Properties of the nonce guard *)

\* the credential "<username of user i>-<n>"
CredOf(us, i, n) == [kind |-> "ok", username |-> us[i].username, nonce |-> n]

\* C1: nonce monotonicity. For a registered identity whose stored nonce is
\* n, a /nonce-guard-test request presenting n succeeds and leaves the
\* stored nonce at n + 1; a request presenting n when the stored nonce is
\* n + 1 (n was accepted and nothing else changed) fails with NonceMismatch,
\* expected n + 1, received n, and changes nothing. A request succeeds only
\* when it presents the stored nonce and stored nonces never decrease, so a
\* nonce is accepted at most once per identity.
NonceAcceptedOnce ==
    [][ /\ \A c \in Creds :
              (c.kind = "ok" /\ get_user(users, c.username) # 0 /\ NonceGuardTest(c)) =>
                 LET i == get_user(users, c.username) IN
                 /\ (users[i].nonce = c.nonce) =>
                       /\ last'.outcome = Verified
                       /\ users' = [users EXCEPT ![i].nonce = c.nonce + 1]
                 /\ (users[i].nonce = c.nonce + 1) =>
                       /\ last' = Resp("action", "NonceMismatch", c.nonce + 1, c.nonce, -1)
                       /\ users' = users
                 /\ (last'.outcome = Verified) => users[i].nonce = c.nonce
        /\ \A i \in 1..Len(users) :
              i <= Len(users') /\ users'[i].nonce >= users[i].nonce
      ]_vars

\* C1 witness: a nonce was accepted (the stored nonce is 1) and the request
\* presenting it again was turned away, expected 1 and received 0
NonceReplayed ==
    /\ last = Resp("action", "NonceMismatch", 1, 0, -1)
    /\ \E i \in 1..Len(users) : users[i].nonce = 1

\* C7: a /nonce-guard-test request whose nonce differs from the stored
\* nonce of its registered user, smaller or larger, fails with
\* NonceMismatch, expected = the stored nonce, received = the supplied
\* nonce, and changes no state.
MismatchChangesNothing ==
    [][ \A c \in Creds :
           (/\ c.kind = "ok"
            /\ get_user(users, c.username) # 0
            /\ users[get_user(users, c.username)].nonce # c.nonce
            /\ NonceGuardTest(c)) =>
              /\ last' = Resp("action", "NonceMismatch",
                              users[get_user(users, c.username)].nonce, c.nonce, -1)
              /\ UNCHANGED db
      ]_vars

\* C7 witness: a request presenting a nonce larger than the stored one was
\* turned away and the stored nonce did not move to it
LargerNonceRefused ==
    /\ last.op = "action"
    /\ last.outcome = "NonceMismatch"
    /\ last.received > last.expected
    /\ \E i \in 1..Len(users) : users[i].nonce = last.expected

\* the error of the guard for a credential that is missing, has no
\* delimiter or names no registered user
RefusalOf(us, cred) ==
    IF cred.kind = "none" THEN "MissingHeader"
    ELSE IF cred.kind = "malformed" THEN "MalformedHeader"
    ELSE "UserNotFound"

\* C13: a request to a guarded route whose credential is missing or has no
\* delimiter is answered with the header error of the guard, and one whose
\* credential names an unregistered username with UserNotFound; in both
\* cases the handler of the route does not run and the users, their nonces
\* included, the edges and the proofs stay as they were.
GuardRefusesUnknown ==
    [][ \A c \in Creds :
           (c.kind # "ok" \/ get_user(users, c.username) = 0) =>
              ((\/ (last'.op = "action" /\ NonceGuardTest(c))
                \/ (last'.op = "create_phrase"
                       /\ \E r \in GuardPhraseRequests : CreatePhrase(c, r))
                \/ (last'.op = "add_relationship"
                       /\ \E sg \in GuardSigs, to \in GoodNames,
                             ek \in EphemeralKeys, ct \in Ciphertexts :
                             AddRelationship(c, sg, to, ek, ct))
                \/ (last'.op = "get_all_degrees"
                       /\ \E sg \in GuardSigs : GetAllDegrees(c, sg))) =>
                  /\ last'.outcome = RefusalOf(users, c)
                  /\ UNCHANGED db)
      ]_vars

\* C13 witness: with an identity registered that has authenticated, a
\* create_phrase request naming an unregistered user was turned away
UnknownUserRefused ==
    /\ last.op = "create_phrase"
    /\ last.outcome = "UserNotFound"
    /\ Len(users) = 1
    /\ users[1].nonce = 1
    /\ proofs = <<>>

\* tasks presenting the credential "<u>-<n>"
\* the store's uniqueness indexes on username and public key: whether a
\* document may be inserted
UniqueIndexes(us, user) ==
    \A i \in 1..Len(us) :
        us[i].username # user.username /\ us[i].pubkey # user.pubkey

\* create_user up to the answer of check_creation_params: a request that is
\* refused is answered here, one that is not goes on to the insert
RegisterCheck(t, username, pubkey, signature) ==
    /\ tasks[t].pc = "idle"
    /\ \E outcome \in {create_user_outcome(users, username, pubkey, signature)} :
          IF outcome = "Created"
          THEN /\ tasks' = [tasks EXCEPT ![t] =
                              [pc |-> "checked", username |-> username,
                               pubkey |-> pubkey, signature |-> signature,
                               outcome |-> "none"]]
               /\ UNCHANGED last
          ELSE /\ tasks' = [tasks EXCEPT ![t] =
                              [pc |-> "done", username |-> username,
                               pubkey |-> pubkey, signature |-> signature,
                               outcome |-> outcome]]
               /\ last' = Resp("create_user", outcome, -1, -1, -1)
    /\ UNCHANGED <<users, relationships, proofs>>

\* create_user from the insert on: Ok is answered Created and an error of
\* the store InternalError
RegisterInsert(t) ==
    /\ tasks[t].pc = "checked"
    /\ LET user == NewUser(tasks[t].username, tasks[t].pubkey)
           outcome == IF UniqueIndexes(users, user) THEN "Created" ELSE "InternalError"
       IN
       /\ users' = IF outcome = "Created" THEN db_create_user(users, user) ELSE users
       /\ tasks' = [tasks EXCEPT ![t].pc = "done", ![t].outcome = outcome]
       /\ last' = Resp("create_user", outcome, -1, -1, -1)
    /\ UNCHANGED <<relationships, proofs>>

\* registration requests served concurrently, each in its own task
NextRegister ==
    \/ \E t \in 1..NumTasks, r \in Registrations : RegisterCheck(t, r[1], r[2], r[3])
    \/ \E t \in 1..NumTasks : RegisterInsert(t)

SpecRegister == Init /\ [][NextRegister]_vars

TasksOf(u, n) ==
    {t \in 1..NumTasks : tasks[t].cred = [kind |-> "ok", username |-> u, nonce |-> n]}

NonceMovesOnlyOnOwnAuth ==
    [][ \A i \in 1..Len(users) :
           /\ i <= Len(users')
           /\ users'[i].username = users[i].username
           /\ users'[i].nonce \in {users[i].nonce, users[i].nonce + 1}
           /\ (users'[i].nonce # users[i].nonce) =>
                 /\ last'.outcome \notin GuardFailures
                 /\ \A j \in 1..Len(users) : j # i => users'[j].nonce = users[j].nonce
                 /\ \E c \in {CredOf(users, i, users[i].nonce)} :
                       \/ NonceGuardTest(c)
                       \/ \E r \in SentPhraseRequests : CreatePhrase(c, r)
                       \/ \E s \in CredSigs, to \in GoodNames,
                             ek \in EphemeralKeys, ct \in Ciphertexts :
                             AddRelationship(c, s, to, ek, ct)
                       \/ \E s \in CredSigs : GetAllDegrees(c, s)
      ]_vars

\* C8 witness: two identities are registered, one has authenticated and
\* the nonce of the other is where registration left it
OneNonceMoved ==
    /\ Len(users) = 2
    /\ users[1].nonce = 1
    /\ users[2].nonce = 0
    /\ last.outcome \notin GuardFailures
    /\ last.op \in {"action", "create_phrase", "add_relationship", "get_all_degrees"}

----------------------------------------------------------------------------
(* Properties of registration *)

\* whether the signature decodes and verifies over the encoding of the
\* username under the public key
SignatureVerifies(username, pubkey, signature) ==
    /\ pubkey # BadKey
    /\ signature # BadSig
    /\ verify(pubkey, signature, convert_username_to_fr(username))

WellFormed(username) == StrLen(username) <= MAX_USERNAME_CHARS /\ is_ascii(username)

\* C6: no two identities share a username and no two share a public key;
\* a registration succeeds only when neither its username nor its key is
\* registered, and a registered identity keeps both, so for a (username,
\* public key) pair at most one registration ever succeeds.
RegistrationUnique ==
    /\ [](\A i, j \in 1..Len(users) :
             i # j => (users[i].username # users[j].username
                       /\ users[i].pubkey # users[j].pubkey))
    /\ [][ /\ \A u \in Usernames, k \in Keys \cup {BadKey}, s \in Signatures :
                 (create_user(u, k, s) /\ last'.outcome = "Created") =>
                     /\ check_creation_params(users, u, k) = <<FALSE, FALSE>>
                     /\ check_creation_params(users', u, k) = <<TRUE, TRUE>>
           /\ \A i \in 1..Len(users) :
                 /\ i <= Len(users')
                 /\ users'[i].username = users[i].username
                 /\ users'[i].pubkey = users[i].pubkey
         ]_vars

\* C6 witness: both usernames are registered, under different keys, and
\* the last registration was turned away as a conflict
TwoRegistered ==
    /\ Len(users) = 2
    /\ last.op = "create_user"
    /\ last.outcome \in {"UserExists", "UsernameExists", "PubkeyExists"}

\* C9 as stated: a registration succeeds if and only if its signature
\* verifies over the encoding of the username under the public key.
RegisterIffSignature ==
    [][ \A u \in Usernames, k \in Keys \cup {BadKey}, s \in Signatures :
           create_user(u, k, s) =>
              (last'.outcome = "Created" <=> SignatureVerifies(u, k, s))
      ]_vars

\* C9 amended: a registration succeeds only if its signature verifies over
\* the encoding of the username under the public key, and it succeeds if
\* moreover the username has at most 30 ASCII characters and neither the
\* username nor the key is registered; a registration of such a username
\* with a signature that decodes but does not verify, as the signature of
\* another signer over that signer's own username, is rejected with the
\* signature error and creates no identity.
SignatureBinding ==
    [][ \A u \in Usernames, k \in Keys \cup {BadKey}, s \in Signatures :
           create_user(u, k, s) =>
              /\ (last'.outcome = "Created") => SignatureVerifies(u, k, s)
              /\ (/\ SignatureVerifies(u, k, s)
                  /\ WellFormed(u)
                  /\ check_creation_params(users, u, k) = <<FALSE, FALSE>>) =>
                     (last'.outcome = "Created"
                      /\ users' = Append(users, NewUser(u, k)))
              /\ (/\ WellFormed(u)
                  /\ k # BadKey
                  /\ s # BadSig
                  /\ ~SignatureVerifies(u, k, s)) =>
                     (last'.outcome = "Signature" /\ users' = users)
      ]_vars

\* C9 witness: an identity is registered and a registration was rejected
\* for its signature
SignatureRejected ==
    /\ Len(users) >= 1
    /\ last.op = "create_user"
    /\ last.outcome = "Signature"

CharCount(s) == Cardinality({i \in 1..Len(s) : s[i] < 128 \/ s[i] > 191})

\* C11: a registration of a username longer than 30 characters is rejected
\* with UsernameTooLong, a registration of a username of at most 30
\* characters one of which is not ASCII is rejected with UsernameNotAscii,
\* in both cases no identity is created; a username of exactly 30 ASCII
\* characters is not rejected for its length.
UsernameChecks ==
    [][ \A u \in LengthNames, k \in Keys \cup {BadKey}, s \in NameSignatures :
           create_user(u, k, s) =>
              /\ (CharCount(u) > MAX_USERNAME_CHARS) =>
                    (last'.outcome = "UsernameTooLong" /\ users' = users)
              /\ (CharCount(u) <= MAX_USERNAME_CHARS /\ ~is_ascii(u)) =>
                    (last'.outcome = "UsernameNotAscii" /\ users' = users)
              /\ (CharCount(u) = MAX_USERNAME_CHARS /\ is_ascii(u)) =>
                    last'.outcome # "UsernameTooLong"
      ]_vars

\* C12: a registration answered Created adds exactly one identity, with
\* the username and public key of the request, nonce 0, no relationships
\* and no degree proofs, and leaves the registered identities, the edges
\* and the proofs as they were; for an identity whose stored nonce is still
\* 0, an authentication succeeds if and only if it presents nonce 0.
RegistrationCreatesOne ==
    [][ /\ (last'.op = "create_user" /\ last'.outcome = "Created") =>
              /\ \E r \in Registrations :
                    /\ create_user(r[1], r[2], r[3])
                    /\ users' = Append(users,
                                       [username |-> r[1], pubkey |-> r[2], nonce |-> 0,
                                        relationships |-> <<>>, degree_proofs |-> <<>>])
              /\ relationships' = relationships
              /\ proofs' = proofs
        /\ (last'.op = "action") =>
              \A c \in Creds :
                 (/\ c.kind = "ok"
                  /\ get_user(users, c.username) # 0
                  /\ users[get_user(users, c.username)].nonce = 0
                  /\ NonceGuardTest(c)) =>
                     (last'.outcome = Verified <=> c.nonce = 0)
      ]_vars

\* C12 witness: a second identity has just been registered, with nonce 0,
\* next to an identity that has authenticated and holds a proof
SecondRegistered ==
    /\ last.op = "create_user"
    /\ last.outcome = "Created"
    /\ Len(users) = 2
    /\ users[2].nonce = 0
    /\ users[1].nonce > 0
    /\ Len(proofs) >= 1

----------------------------------------------------------------------------
(* Properties of the mutating routes *)

MutatingOps == {"create_user", "create_phrase", "degree_proof", "add_relationship"}

GuardedOps == {"create_phrase", "add_relationship"}

\* the step served a mutating request and answered it with an error
ErrorStep == last'.op \in MutatingOps /\ last'.outcome # "Created"

\* C3: a step that stores a new degree proof or a new relationship edge
\* serves a request whose credential names a registered identity and that
\* identity's stored nonce, and that has passed the guard.
MutationsGuarded ==
    [][ /\ (Len(proofs') > Len(proofs)) =>
              \/ \E c \in Creds, r \in SentPhraseRequests :
                    Current(users, c) /\ CreatePhrase(c, r)
              \/ \E c \in DegreeProofCreds, r \in SentDegreeRequests :
                    Current(users, c) /\ DegreeProof(c, r)
        /\ (Len(relationships') > Len(relationships)) =>
              \E c \in Creds, s \in CredSigs, to \in GoodNames,
                 ek \in EphemeralKeys, ct \in Ciphertexts :
                 Current(users, c) /\ AddRelationship(c, s, to, ek, ct)
      ]_vars

\* C4 as stated: a mutating request answered with an error leaves the
\* users (their nonces included), the edges and the proofs as they were.
ErrorChangesNothing ==
    [][ ErrorStep => UNCHANGED db ]_vars

\* C4 amended: a mutating request answered with an error leaves the edges
\* and the proofs as they were and the users as they were but for one
\* nonce: of a request that passed the guard of create_phrase or
\* add_relationship and then failed, the stored nonce of one identity has
\* advanced by 1, the nonce the guard consumed; a request refused by the
\* guard, a registration and a continuation change nothing.
ErrorChangesOnlyNonce ==
    [][ ErrorStep =>
           /\ relationships' = relationships
           /\ proofs' = proofs
           /\ IF last'.op \in GuardedOps /\ last'.outcome \notin GuardFailures
              THEN \E i \in 1..Len(users) : users' = increment_nonce(users, i)
              ELSE users' = users
      ]_vars

\* C4 witness: create_phrase answered BadRequest, nothing is stored, and a
\* nonce has been consumed
PhraseRefusedNonceSpent ==
    /\ last.op = "create_phrase"
    /\ last.outcome = "BadRequest"
    /\ proofs = <<>>
    /\ relationships = <<>>
    /\ \E i \in 1..Len(users) : users[i].nonce = 1

\* C5: every stored proof of degree > 1 has a preceding proof that exists,
\* whose degree is one less and whose proceeding list holds the proof's id.
DagIntegrity ==
    \A i \in 1..Len(proofs) :
        proofs[i].degree > 1 =>
            /\ proofs[i].preceding \in 1..Len(proofs)
            /\ proofs[proofs[i].preceding].degree = proofs[i].degree - 1
            /\ \E k \in 1..Len(proofs[proofs[i].preceding].proceeding) :
                  proofs[proofs[i].preceding].proceeding[k] = i

\* C14: degree_proof stores a proof only for a request whose proof bytes
\* verify at a step count of exactly twice the declared degree, and the
\* stored phrase_hash and auth_hash are the public outputs of that proof in
\* slots 1 and 2; a request whose proof does not verify at that step count
\* is answered BadRequest and nothing is stored.
ChainDegreeConsistency ==
    [][ (last'.op = "degree_proof") =>
           /\ (proofs' # proofs) =>
                 /\ Len(proofs') = Len(proofs) + 1
                 /\ \E c \in {NoCred}, r \in ChainDegreeRequests :
                       /\ r.kind = "degree"
                       /\ r.proof.valid
                       /\ r.proof.steps = 2 * r.degree
                       /\ proofs'[Len(proofs')].degree = r.degree
                       /\ proofs'[Len(proofs')].phrase_hash = r.proof.phrase
                       /\ proofs'[Len(proofs')].auth_hash = r.proof.auth
                       /\ proofs'[Len(proofs')].proof = r.proof
                       /\ DegreeProof(c, r)
           /\ ~(last'.outcome = "BadRequest" /\ UNCHANGED db) =>
                 \A c \in {NoCred}, r \in ChainDegreeRequests :
                    (/\ r.kind = "degree"
                     /\ (~r.proof.valid \/ r.proof.steps # 2 * r.degree)) =>
                        ~DegreeProof(c, r)
      ]_vars

\* C14 witness: a degree 2 proof folded over 4 steps is stored with the
\* public outputs of its proof
DegreeTwoStored ==
    /\ last.op = "degree_proof"
    /\ last.outcome = "Created"
    /\ Len(proofs) = 2
    /\ proofs[2].degree = 2
    /\ proofs[2].proof.steps = 4
    /\ proofs[2].phrase_hash = proofs[2].proof.phrase

\* C15: create_phrase stores a proof only for a request that passed the
\* guard and whose proof bytes verify at step count 2; the stored proof has
\* degree 1, no preceding proof, an empty proceeding list, the
\* authenticated caller as its owner, and as phrase_hash and auth_hash the
\* public outputs of the proof in slots 1 and 2.
OriginProofStored ==
    [][ (last'.op = "create_phrase" /\ proofs' # proofs) =>
           /\ Len(proofs') = Len(proofs) + 1
           /\ \A i \in 1..Len(proofs) : proofs'[i] = proofs[i]
           /\ \E c \in ChainCreds, r \in ChainPhraseRequests :
                 /\ Current(users, c)
                 /\ CreatePhrase(c, r)
                 /\ r.proof.valid
                 /\ r.proof.steps = 2
                 /\ proofs'[Len(proofs')] =
                       [phrase_hash |-> r.proof.phrase,
                        auth_hash |-> r.proof.auth,
                        user |-> get_user(users, c.username),
                        degree |-> 1,
                        proof |-> r.proof,
                        preceding |-> 0,
                        proceeding |-> <<>>]
      ]_vars

\* C16: a continuation request whose proof verifies but whose user is not
\* registered, or whose previous proof does not resolve to a stored proof,
\* ends with the not-found error of the route, not with a crash of the
\* handler, and stores no proof and changes no proceeding list.
ExtendNotFound ==
    [][ (last'.op = "degree_proof") =>
           \A c \in {NoCred}, r \in ChainDegreeRequests :
              (/\ r.kind = "degree"
               /\ r.proof.valid
               /\ r.proof.steps = 2 * r.degree
               /\ (get_user(users, r.username) = 0 \/ r.previous \notin 1..Len(proofs))
               /\ DegreeProof(c, r)) =>
                  /\ last'.outcome = "NotFound"
                  /\ UNCHANGED db
      ]_vars

----------------------------------------------------------------------------
(* Properties of the frontier and of the proof bundle *)

\* the ids a list of ids holds
Ids(seq) == {seq[k] : k \in 1..Len(seq)}

\* the proofs owned by a user with an edge to user u on whose phrase hash
\* u holds no proof that extends another
Frontier(us, rels, prfs, u) ==
    {i \in 1..Len(prfs) :
        /\ \E e \in 1..Len(rels) : rels[e].sender = prfs[i].user /\ rels[e].recipient = u
        /\ \A q \in 1..Len(prfs) :
              (prfs[q].user = u /\ prfs[q].preceding # 0) =>
                 prfs[q].phrase_hash # prfs[i].phrase_hash}

\* C17: in every state the available proofs of a registered user u are
\* exactly the proofs whose owner has a relationship to u and on whose
\* phrase hash u has not extended; and when a continuation of u from one
\* of its available proofs is stored, that proof is not among the available
\* proofs of u afterwards.
FrontierCorrect ==
    /\ [](\A u \in 1..Len(users) :
             Ids(find_available_degrees(users, relationships, proofs, users[u].username))
                = Frontier(users, relationships, proofs, u))
    /\ [][ (last'.op = "degree_proof" /\ last'.outcome = "Created") =>
             LET new == proofs'[Len(proofs')]
                 name == users[new.user].username
             IN
             (new.preceding \in
                 Ids(find_available_degrees(users, relationships, proofs, name))) =>
                (new.preceding \notin
                    Ids(find_available_degrees(users', relationships', proofs', name)))
          ]_vars

\* how often id i is listed in seq
Occurrences(seq, i) == Cardinality({k \in 1..Len(seq) : seq[k] = i})

\* the proofs get_available_proofs lists for user b
Listed(b) == get_available_proofs(users, relationships, proofs, users[b].username).value

BundleOnlyForRecipient ==
    [][ (last'.op = "get_proof_with_params") =>
           \A oid \in PreviousIds, u \in GoodNames :
              GetProofWithParams(oid, u) =>
                 LET req == get_user(users, u)
                     edges == IF oid \in 1..Len(proofs) /\ req # 0
                              THEN {e \in 1..Len(relationships) :
                                      /\ relationships[e].sender = proofs[oid].user
                                      /\ relationships[e].recipient = req}
                              ELSE {}
                 IN
                 /\ (edges = {}) => last'.outcome = "NotFound"
                 /\ (last'.outcome = "Ok") =>
                       /\ last'.value.degree = proofs[oid].degree
                       /\ last'.value.proof = proofs[oid].proof
                       /\ last'.value.username = users[proofs[oid].user].username
                       /\ \E e \in edges :
                             /\ relationships[e].ephemeral_key = last'.value.ephemeral_key
                             /\ relationships[e].ciphertext = last'.value.ciphertext
      ]_vars

----------------------------------------------------------------------------
(* Properties of the relationship ledger *)

\* C20: no stored relationship has its sender as its recipient; an
\* add_relationship request whose target is the user of its credential
\* stores no relationship, and when it passes the guard it is answered
\* RelationshipSenderIsTarget.
NoSelfRelationship ==
    /\ [](\A e \in 1..Len(relationships) :
             relationships[e].sender # relationships[e].recipient)
    /\ [][ (last'.op = "add_relationship") =>
             \A c \in Creds, sg \in GuardSigs, ek \in EphemeralKeys, ct \in Ciphertexts :
                (c.kind = "ok" /\ AddRelationship(c, sg, c.username, ek, ct)) =>
                   /\ relationships' = relationships
                   /\ (/\ Current(users, c)
                       /\ SignatureVerifies(c.username,
                                             users[get_user(users, c.username)].pubkey,
                                             sg)) =>
                          last'.outcome = "RelationshipSenderIsTarget"
          ]_vars

\* C20 witness: a relationship is stored and a request of a user naming
\* itself as its target has been turned away
SelfRelationshipRefused ==
    /\ last.op = "add_relationship"
    /\ last.outcome = "RelationshipSenderIsTarget"
    /\ Len(relationships) = 1

SingleLiveProof ==
    \A i, j \in 1..Len(proofs) :
        (/\ proofs[i].user = proofs[j].user
         /\ proofs[i].phrase_hash = proofs[j].phrase_hash) => i = j

\* C24: every stored proof that has a preceding proof has the phrase hash
\* of that preceding proof, so the phrase hash is the same along every chain
\* from an origin proof.
PhraseConstantAlongChain ==
    \A i \in 1..Len(proofs) :
        (proofs[i].preceding # 0) =>
            /\ proofs[i].preceding \in 1..Len(proofs)
            /\ proofs[proofs[i].preceding].phrase_hash = proofs[i].phrase_hash

\* C25: every stored proof of a degree above 1 has a preceding proof whose
\* owner has added a relationship to the owner of the proof: extend stores
\* no proof built on a proof of a user without a relationship to the
\* extender.
ExtensionFollowsRelationship ==
    \A i \in 1..Len(proofs) :
        (proofs[i].degree > 1) =>
            /\ proofs[i].preceding \in 1..Len(proofs)
            /\ \E e \in 1..Len(relationships) :
                  /\ relationships[e].sender = proofs[proofs[i].preceding].user
                  /\ relationships[e].recipient = proofs[i].user

\* C26: get_nonce answers NotFound for a username that is not registered;
\* for a registered username and a signature that does not verify over the
\* username under the stored public key it fails and returns no nonce; for
\* a signature that verifies it returns the nonce stored for the user. In
\* each case users, relationships and proofs stay as they are, so the nonce
\* is not advanced.
GetNonceReadsOnly ==
    [][ (last'.op = "get_nonce") =>
          /\ UNCHANGED <<users, relationships, proofs>>
          /\ \A u \in GoodNames, s \in Signatures :
                GetNonce(u, s) =>
                   LET i == get_user(users, u) IN
                   IF i = 0
                   THEN last'.outcome = "NotFound" /\ last'.value = -1
                   ELSE IF ~SignatureVerifies(u, users[i].pubkey, s)
                   THEN last'.outcome \in {"Signature", "Panic"} /\ last'.value = -1
                   ELSE /\ last'.outcome = "Ok"
                        /\ last'.value = users[i].nonce
                        /\ users'[i].nonce = users[i].nonce
      ]_vars

\* C26 witness: get_nonce has returned the nonce of a user who has already
\* been authenticated once
NonceReturned ==
    /\ last.op = "get_nonce"
    /\ last.outcome = "Ok"
    /\ last.value = 1
    /\ \E i \in 1..Len(users) : users[i].nonce = 1

Conflicts == {"UserExists", "UsernameExists", "PubkeyExists"}

\* C27: of two registration requests with valid signatures and the same
\* username or the same public key that are served concurrently, the check
\* for existing users and the insert being separate steps of each, at most
\* one creates a user and the other is answered with a conflict.
RegistrationRaceConflicts ==
    \A t1, t2 \in 1..NumTasks :
        (/\ t1 # t2
         /\ tasks[t1].pc = "done"
         /\ tasks[t2].pc = "done"
         /\ SignatureVerifies(tasks[t1].username, tasks[t1].pubkey, tasks[t1].signature)
         /\ SignatureVerifies(tasks[t2].username, tasks[t2].pubkey, tasks[t2].signature)
         /\ WellFormed(tasks[t1].username)
         /\ WellFormed(tasks[t2].username)
         /\ \/ tasks[t1].username = tasks[t2].username
            \/ tasks[t1].pubkey = tasks[t2].pubkey) =>
            /\ ~(tasks[t1].outcome = "Created" /\ tasks[t2].outcome = "Created")
            /\ tasks[t1].outcome = "Created" => tasks[t2].outcome \in Conflicts

\* C28: every stored proof has a degree of at least 1, and it has no
\* preceding proof exactly when its degree is 1; a continuation request
\* that declares a degree of 1 or less stores no proof with a preceding
\* proof.
OriginIffDegreeOne ==
    \A i \in 1..Len(proofs) :
        /\ proofs[i].degree >= 1
        /\ (proofs[i].preceding = 0) <=> (proofs[i].degree = 1)

\* C29: every step that stores a proof authenticates a user, whose stored
\* nonce it advances, and that user is the owner of the stored proof; the
\* list of degree proofs of every other user stays as it is. So a request
\* authenticated as one user never stores a proof owned by another user.
ProofOwnerIsAuthenticated ==
    [][ (Len(proofs') > Len(proofs)) =>
          \E i \in 1..Len(users) :
             /\ users'[i].nonce = users[i].nonce + 1
             /\ proofs'[Len(proofs')].user = i
             /\ \A j \in 1..Len(users) :
                   (j # i) => users'[j].degree_proofs = users[j].degree_proofs
      ]_vars

\* C30: the sender of every relationship is the user that the
\* add_relationship request storing it was authenticated as: the step that
\* stores a relationship advances the nonce of its sender, and the sender
\* is the user of the credential of every request the step may have
\* served, whatever the body names.
SenderIsAuthenticated ==
    [][ (Len(relationships') > Len(relationships)) =>
          LET e == relationships'[Len(relationships')] IN
          /\ e.sender \in 1..Len(users)
          /\ users'[e.sender].nonce = users[e.sender].nonce + 1
          /\ \A i \in 1..Len(users) :
                (i # e.sender) => users'[i].nonce = users[i].nonce
          /\ \A c \in Creds, sg \in GuardSigs, to \in GoodNames,
                ek \in EphemeralKeys, ct \in Ciphertexts :
                AddRelationship(c, sg, to, ek, ct) =>
                   /\ Current(users, c)
                   /\ e.sender = get_user(users, c.username)
                   /\ e.recipient = get_user(users, to)
      ]_vars

\* C30 witness: a relationship has been stored whose sender has been
\* authenticated once and whose recipient never
SenderAuthenticatedOnce ==
    /\ last.op = "add_relationship"
    /\ last.outcome = "Created"
    /\ Len(relationships) = 1
    /\ users[relationships[1].sender].nonce = 1
    /\ users[relationships[1].recipient].nonce = 0

\* C31: for every stored proof P, each id in the list of proceeding proofs
\* of P is the id of a stored proof whose preceding proof is P, and no id is
\* in the list twice; a proof is stored with an empty list, and the list of
\* a stored proof only grows, by ids appended at its end.
ProceedingBackReferences ==
    /\ [](\A p \in 1..Len(proofs) :
             /\ \A k \in 1..Len(proofs[p].proceeding) :
                   /\ proofs[p].proceeding[k] \in 1..Len(proofs)
                   /\ proofs[proofs[p].proceeding[k]].preceding = p
             /\ \A k, l \in 1..Len(proofs[p].proceeding) :
                   (proofs[p].proceeding[k] = proofs[p].proceeding[l]) => k = l)
    /\ [][ /\ Len(proofs') >= Len(proofs)
           /\ \A p \in 1..Len(proofs') :
                 IF p \in 1..Len(proofs)
                 THEN /\ Len(proofs'[p].proceeding) >= Len(proofs[p].proceeding)
                      /\ SubSeq(proofs'[p].proceeding, 1, Len(proofs[p].proceeding))
                            = proofs[p].proceeding
                 ELSE proofs'[p].proceeding = <<>>
         ]_vars

\* C31 witness: a proof has been continued twice and lists both
\* continuations, each of which has it as its preceding proof
TwoProceeding ==
    /\ last.op = "degree_proof"
    /\ last.outcome = "Created"
    /\ Len(proofs) = 3
    /\ proofs[1].proceeding = <<2, 3>>
    /\ proofs[2].preceding = 1
    /\ proofs[3].preceding = 1

====
